---- MODULE Spec2Model ----
(***************************************************************************)
(* Model of the "USD High Impact Monitor" dashboard (src/app.py): the      *)
(* mock-data generators, make_api_request, the three @st.cache_data        *)
(* fetchers, the sidebar's demo switch and the three sections of a script  *)
(* run.                                                                    *)
(*                                                                         *)
(* Python values are modelled as follows.                                  *)
(*   - a JSON/Python list            [t |-> "list", items |-> <<...>>]     *)
(*   - a JSON/Python dict            [t |-> "dict", d |-> function]        *)
(*   - any other JSON value (null)   [t |-> "null"]                        *)
(*   - a raw record is a function from its field names to its values       *)
(*   - a text that is searched for a substring (the impact column) is a    *)
(*     tuple of one-character strings, so that the search is computed      *)
(***************************************************************************)
EXTENDS Integers, Sequences, FiniteSets, TLC

(***************************************************************************)
(* Bounds of the model                                                     *)
(***************************************************************************)
\* number of script runs (user interactions) explored
MaxRuns == 2
\* number of clock steps explored
MaxTicks == 2
\* longest list of raw records handed to the filters in SpecFilter
MaxLen == 2

(***************************************************************************)
(* Program constants                                                       *)
(***************************************************************************)
\* @st.cache_data(ttl=3600) on both calendar fetchers
TTL_CALENDAR == 3600
\* @st.cache_data(ttl=1800) on the news fetcher
TTL_NEWS == 1800
\* status code singled out by make_api_request
STATUS_429 == 429

\* the clock advances in steps of the shortest TTL
ClockStep == TTL_NEWS

\* the dates picked in the date input
Dates == {"2026-11-05", "2026-11-06"}
Sections == {"ult", "ff", "news"}

(***************************************************************************)
(* Texts as tuples of characters                                           *)
(***************************************************************************)
S_High == <<"H", "i", "g", "h">>
S_high == <<"h", "i", "g", "h">>
S_HIGH_IMPACT == <<"H", "I", "G", "H", "-", "I", "M", "P", "A", "C", "T">>
S_Hig == <<"H", "i", "g">>
S_Medium == <<"M", "e", "d", "i", "u", "m">>
S_Low == <<"L", "o", "w">>
S_nan == <<"n", "a", "n">>

\* pandas' missing cell; not a text
NaN == <<"NaN">>

LowerOf ==
  ("A" :> "a") @@ ("C" :> "c") @@ ("G" :> "g") @@ ("H" :> "h") @@ ("I" :> "i")
  @@ ("L" :> "l") @@ ("M" :> "m") @@ ("P" :> "p") @@ ("T" :> "t")

Lower(c) == IF c \in DOMAIN LowerOf THEN LowerOf[c] ELSE c

\* Series.astype(str): a missing cell becomes the text "nan"
AsStr(v) == IF v = NaN THEN S_nan ELSE v

\* Series.str.contains(pat, case=False) on one cell
ContainsCI(s, pat) ==
  \E i \in 1..(Len(s) - Len(pat) + 1) :
    \A j \in 1..Len(pat) : Lower(s[i + j - 1]) = Lower(pat[j])

\* Series.str.contains(pat) on one cell, case-sensitive
ContainsCS(s, pat) ==
  \E i \in 1..(Len(s) - Len(pat) + 1) :
    \A j \in 1..Len(pat) : s[i + j - 1] = pat[j]

(***************************************************************************)
(* Python values                                                           *)
(***************************************************************************)
PyList(items) == [t |-> "list", items |-> items]
PyDict(d) == [t |-> "dict", d |-> d]
PyNull == [t |-> "null"]
EmptyFn == [k \in {} |-> ""]

IsList(v) == v.t = "list"
IsDict(v) == v.t = "dict"
\* isinstance(data, dict) and "error" in data
IsErrorDict(v) == IsDict(v) /\ "error" \in DOMAIN v.d
\* isinstance(data, list) and data
IsNonEmptyList(v) == IsList(v) /\ Len(v.items) > 0

ErrorDict(code) == PyDict([error |-> code])

\* DataFrame(records).columns
Columns(rows) == UNION {DOMAIN rows[i] : i \in 1..Len(rows)}
\* one cell of the frame
Cell(r, c) == IF c \in DOMAIN r THEN r[c] ELSE NaN

(***************************************************************************)
(* Mock data generators                                                    *)
(***************************************************************************)
get_mock_ultimate_calendar ==
  << [time |-> "08:30 AM", country |-> "US", title |-> "[DEMO] Core PPI m/m",
      actual |-> "0.3%", previous |-> "0.2%", forecast |-> "0.2%", impact |-> S_High],
     [time |-> "08:30 AM", country |-> "US", title |-> "[DEMO] PPI m/m",
      actual |-> "0.1%", previous |-> "-0.1%", forecast |-> "0.1%", impact |-> S_High],
     [time |-> "10:00 AM", country |-> "US", title |-> "[DEMO] Prelim UoM Consumer Sentiment",
      actual |-> "69.5", previous |-> "67.4", forecast |-> "69.0", impact |-> S_Medium] >>

get_mock_forex_factory ==
  << [Currency |-> "USD", Impact |-> S_High, Event |-> "[DEMO] Unemployment Claims",
      Actual |-> "210K", Forecast |-> "215K", Previous |-> "208K"],
     [Currency |-> "USD", Impact |-> S_High, Event |-> "[DEMO] Philly Fed Mfg Index",
      Actual |-> "15.5", Forecast |-> "8.0", Previous |-> "12.2"],
     [Currency |-> "USD", Impact |-> S_Medium, Event |-> "[DEMO] Natural Gas Storage",
      Actual |-> "85B", Forecast |-> "82B", Previous |-> "79B"] >>

get_mock_news ==
  << [Title |-> "[DEMO] Dollar surges as inflation fears return", Link |-> "#", Date |-> "2 hours ago"],
     [Title |-> "[DEMO] Fed Chair signals rate cut delay", Link |-> "#", Date |-> "4 hours ago"],
     [Title |-> "[DEMO] Oil prices drop amid supply concerns", Link |-> "#", Date |-> "5 hours ago"] >>

MockData(sec) ==
  CASE sec = "ult" -> get_mock_ultimate_calendar
    [] sec = "ff" -> get_mock_forex_factory
    [] sec = "news" -> get_mock_news

(***************************************************************************)
(* The filters of sections 1 and 2                                         *)
(***************************************************************************)
\* mutant: the impact match made case-sensitive
ImpactMaskCaseSensitive(r, col) == ContainsCS(AsStr(Cell(r, col)), S_High)

\* the row mask df[col].astype(str).str.contains("High", case=False, na=False)
ImpactMask(r, col) == ContainsCI(AsStr(Cell(r, col)), S_High)

\* the row mask df['Currency'] == 'USD'
CurrencyMask(r) == "Currency" \in DOMAIN r /\ r["Currency"] = "USD"

\* mutant: section 1 without its impact filter
FilterUltNone(rows) == rows

\* section 1: filter for High impact if the column exists
FilterUlt(rows) ==
  IF "impact" \in Columns(rows)
  THEN SelectSeq(rows, LAMBDA r : ImpactMask(r, "impact"))
  ELSE rows

\* section 2: filter USD and High, each if its column exists
FilterFF(rows) ==
  LET cols == Columns(rows)
      byCur == IF "Currency" \in cols
               THEN SelectSeq(rows, LAMBDA r : CurrencyMask(r))
               ELSE rows
  IN IF "Impact" \in cols
     THEN SelectSeq(byCur, LAMBDA r : ImpactMask(r, "Impact"))
     ELSE byCur

\* section 1's dynamic column selection
UltCols == {"time", "title", "actual", "previous", "forecast", "impact"}
Project(r, cols) == [c \in (DOMAIN r) \cap cols |-> r[c]]
ProjectAll(rows, cols) == [i \in 1..Len(rows) |-> Project(rows[i], cols)]

(***************************************************************************)
(* The upstream as seen by requests.get                                    *)
(***************************************************************************)
Http(status, body) == [kind |-> "http", status |-> status, body |-> body]
Transport == [kind |-> "transport", status |-> 0, body |-> PyNull]
NotJson == [t |-> "notjson"]

\* str(err) of the HTTPError raised by raise_for_status, and str(e) otherwise
StatusText ==
  (401 :> "401 Client Error: Unauthorized") @@
  (429 :> "429 Client Error: Too Many Requests") @@
  (500 :> "500 Server Error: Internal Server Error")
TransportText == "ConnectionError: connection refused"
JsonText == "JSONDecodeError: Expecting value"

\* bool(API_KEY)
None == "None"
Truthy(key) == key # None /\ key # ""

\* a live payload per upstream, mixing rows the filters keep and rows they drop
LivePayload(sec) ==
  CASE sec = "ult" ->
         << [time |-> "08:30 AM", title |-> "CPI m/m", impact |-> S_HIGH_IMPACT],
            [time |-> "10:00 AM", title |-> "Factory Orders", impact |-> S_Low] >>
    [] sec = "ff" ->
         << [Currency |-> "EUR", Impact |-> S_High, Event |-> "ECB Press Conference"],
            [Currency |-> "USD", Impact |-> S_High, Event |-> "Non-Farm Payrolls"],
            [Currency |-> "USD", Impact |-> S_Low, Event |-> "Crude Oil Inventories"] >>
    [] sec = "news" ->
         << [Title |-> "Dollar steady ahead of CPI", url |-> "https://example.test/a"] >>

\* mutant: a 2xx body that is not a list reported as an error
make_api_request_ListOnly(key, resp) ==
  IF ~Truthy(key)
  THEN [value |-> ErrorDict("NO_KEY"), requests |-> 0]
  ELSE [requests |-> 1,
        value |->
          IF resp.kind = "transport" THEN ErrorDict(TransportText)
          ELSE IF resp.status >= 400 /\ resp.status < 600
               THEN IF resp.status = STATUS_429
                    THEN ErrorDict("429_LIMIT")
                    ELSE ErrorDict(StatusText[resp.status])
               ELSE IF resp.body = NotJson
                    THEN ErrorDict(JsonText)
                    ELSE IF IsList(resp.body)
                         THEN resp.body
                         ELSE ErrorDict("unexpected body")]

\* mutant: a failed request tried a second time
make_api_request_Retry(key, resp) ==
  IF ~Truthy(key)
  THEN [value |-> ErrorDict("NO_KEY"), requests |-> 0]
  ELSE [requests |-> IF resp.kind = "transport" \/ resp.status >= 400 THEN 2 ELSE 1,
        value |->
          IF resp.kind = "transport" THEN ErrorDict(TransportText)
          ELSE IF resp.status >= 400 /\ resp.status < 600
               THEN IF resp.status = STATUS_429
                    THEN ErrorDict("429_LIMIT")
                    ELSE ErrorDict(StatusText[resp.status])
               ELSE IF resp.body = NotJson
                    THEN ErrorDict(JsonText)
                    ELSE resp.body]

(***************************************************************************)
(* make_api_request: the value it returns and the requests it sent         *)
(***************************************************************************)
make_api_request(key, resp) ==
  IF ~Truthy(key)
  THEN [value |-> ErrorDict("NO_KEY"), requests |-> 0]
  ELSE [requests |-> 1,
        value |->
          IF resp.kind = "transport" THEN ErrorDict(TransportText)
          ELSE IF resp.status >= 400 /\ resp.status < 600
               THEN IF resp.status = STATUS_429
                    THEN ErrorDict("429_LIMIT")
                    ELSE ErrorDict(StatusText[resp.status])
               ELSE IF resp.body = NotJson
                    THEN ErrorDict(JsonText)
                    ELSE resp.body]

(***************************************************************************)
(* st.cache_data: an entry per (function, arguments), with an expiry       *)
(***************************************************************************)
\* the one endpoint suffix the script passes to fetch_news_live
NewsArg == "latest_hottest_news"
CacheKeys == {<<f, d>> : f \in {"ult", "ff"}, d \in Dates} \cup {<<"news", NewsArg>>}
NoEntry == [present |-> FALSE]

Ttl(f) == IF f = "news" THEN TTL_NEWS ELSE TTL_CALENDAR

\* mutant: an entry still served at the instant of its expiry
FreshInclusive(e, t) == e.present /\ t <= e.expires_at

\* an entry is served while the clock is before its expiry
Fresh(e, t) == e.present /\ t < e.expires_at

\* mutant: error results returned but not stored
CachedCallSkipErrors(c, k, t, key, resp) ==
  IF Fresh(c[k], t)
  THEN [value |-> c[k].value, cache |-> c, hit |-> TRUE, requests |-> 0]
  ELSE LET r == make_api_request(key, resp)
       IN [value |-> r.value,
           cache |-> IF IsErrorDict(r.value)
                     THEN c
                     ELSE [c EXCEPT ![k] = [present |-> TRUE, value |-> r.value,
                                            expires_at |-> t + Ttl(k[1])]],
           hit |-> FALSE, requests |-> r.requests]

\* the decorated function: serve a fresh entry, else run the body and store
\* whatever it returns
CachedCall(c, k, t, key, resp) ==
  IF Fresh(c[k], t)
  THEN [value |-> c[k].value, cache |-> c, hit |-> TRUE, requests |-> 0]
  ELSE LET r == make_api_request(key, resp)
       IN [value |-> r.value,
           cache |-> [c EXCEPT ![k] = [present |-> TRUE, value |-> r.value,
                                      expires_at |-> t + Ttl(k[1])]],
           hit |-> FALSE, requests |-> r.requests]

fetch_ultimate_calendar_live(c, t, key, date, resp) ==
  CachedCall(c, <<"ult", date>>, t, key, resp)
fetch_forex_factory_live(c, t, key, date, resp) ==
  CachedCall(c, <<"ff", date>>, t, key, resp)
fetch_news_live(c, t, key, resp) ==
  CachedCall(c, <<"news", NewsArg>>, t, key, resp)

(***************************************************************************)
(* What a section shows: the dataset it settled on, the table it draws     *)
(* and its notices                                                         *)
(***************************************************************************)
Notice(level, text, detail) == [level |-> level, text |-> text, detail |-> detail]
Shown(data, table, notices) == [data |-> data, table |-> table, notices |-> notices]
EmptyList == PyList(<<>>)

\* section 1, lines 133-143: the error branch
FallbackUlt(data) ==
  IF IsErrorDict(data)
  THEN IF data.d["error"] = "429_LIMIT"
       THEN [data |-> PyList(get_mock_ultimate_calendar),
             notices |-> {Notice("error", "API Quota Exceeded (429). Switching to Mock Data for display.", "")}]
       ELSE IF data.d["error"] = "NO_KEY"
       THEN [data |-> PyList(get_mock_ultimate_calendar),
             notices |-> {Notice("error", "No API Key. Using Mock Data.", "")}]
       ELSE [data |-> EmptyList,
             notices |-> {Notice("error", "API Error", data.d["error"])}]
  ELSE [data |-> data, notices |-> {}]

\* section 2, lines 172-178
FallbackFF(data) ==
  IF IsErrorDict(data)
  THEN IF data.d["error"] = "429_LIMIT"
       THEN [data |-> PyList(get_mock_forex_factory),
             notices |-> {Notice("error", "API Quota Exceeded (429). Switching to Mock Data.", "")}]
       ELSE [data |-> EmptyList,
             notices |-> {Notice("error", "API Error", data.d["error"])}]
  ELSE [data |-> data, notices |-> {}]

\* mutant: section 3 without its rate-limit branch
FallbackNewsNoQuota(data) ==
  IF IsErrorDict(data)
  THEN [data |-> EmptyList,
        notices |-> {Notice("error", "News Error", data.d["error"])}]
  ELSE [data |-> data, notices |-> {}]

\* section 3, lines 212-218
FallbackNews(data) ==
  IF IsErrorDict(data)
  THEN IF data.d["error"] = "429_LIMIT"
       THEN [data |-> PyList(get_mock_news),
             notices |-> {Notice("error", "API Quota Exceeded. Showing Mock News.", "")}]
       ELSE [data |-> EmptyList,
             notices |-> {Notice("error", "News Error", data.d["error"])}]
  ELSE [data |-> data, notices |-> {}]

\* section 1, lines 133-158
ProcessUlt(data0) ==
  LET fb == FallbackUlt(data0)
  IN IF IsNonEmptyList(fb.data)
     THEN LET df == FilterUlt(fb.data.items)
          IN IF Len(df) > 0
             THEN Shown(fb.data, ProjectAll(df, UltCols), fb.notices)
             ELSE Shown(fb.data, <<>>,
                        fb.notices \cup {Notice("info", "No High Impact events found.", "")})
     ELSE Shown(fb.data, <<>>, fb.notices \cup {Notice("info", "No data available.", "")})

\* section 2, lines 172-194
ProcessFF(data0) ==
  LET fb == FallbackFF(data0)
  IN IF IsNonEmptyList(fb.data)
     THEN LET df == FilterFF(fb.data.items)
          IN IF Len(df) > 0
             THEN Shown(fb.data, df, fb.notices)
             ELSE Shown(fb.data, <<>>,
                        fb.notices \cup {Notice("info", "No High Impact USD events found.", "")})
     ELSE Shown(fb.data, <<>>, fb.notices \cup {Notice("info", "No data available.", "")})

\* section 3, lines 212-229: no notice when there is nothing to draw
ProcessNews(data0) ==
  LET fb == FallbackNews(data0)
  IN IF IsNonEmptyList(fb.data)
     THEN Shown(fb.data, fb.data.items, fb.notices)
     ELSE Shown(fb.data, <<>>, fb.notices)

Process(sec, data) ==
  CASE sec = "ult" -> ProcessUlt(data)
    [] sec = "ff" -> ProcessFF(data)
    [] sec = "news" -> ProcessNews(data)

(***************************************************************************)
(* State                                                                   *)
(***************************************************************************)
VARIABLES
  API_KEY,        \* the secret read at start-up, or None
  now,            \* the clock, in seconds
  cache,          \* st.cache_data's entries, by function and arguments
  runs,           \* script runs started so far
  pc,             \* position of the script run: "idle", "ult", "ff", "news"
  demo_checkbox,  \* the checkbox as the user left it
  use_demo,       \* use_demo after the sidebar
  selected_date,  \* the date input
  button,         \* whether "Refresh News" triggered this run
  banner,         \* notices of the sidebar and the page header
  run,            \* per section of this run: branch taken, calls, what is shown
  producerTimes,  \* history: per cache key, the times its function body ran
  probe,          \* input and stage of a direct call (SpecFilter, SpecPipeline)
  probeOut        \* its result

vars == <<API_KEY, now, cache, runs, pc, demo_checkbox, use_demo, selected_date,
          button, banner, run, producerTimes, probe, probeOut>>
appVars == <<API_KEY, now, cache, runs, pc, demo_checkbox, use_demo, selected_date,
             button, banner, run, producerTimes>>

Pending ==
  [branch |-> "pending", fetcherCalls |-> 0, netCalls |-> 0, hit |-> FALSE,
   ret |-> PyNull, shown |-> Shown(EmptyList, <<>>, {})]

\* what the upstream of a section may answer to one request
Responses(sec) ==
  { Http(200, PyList(LivePayload(sec))),
    Http(STATUS_429, PyNull),
    Http(500, PyNull),
    Transport }

AppInit ==
  /\ API_KEY \in {None, "rapidapi-key"}
  /\ now = 0
  /\ cache = [k \in CacheKeys |-> NoEntry]
  /\ runs = 0
  /\ pc = "idle"
  /\ demo_checkbox = TRUE
  /\ use_demo = TRUE
  /\ selected_date = "2026-11-05"
  /\ button = FALSE
  /\ banner = {}
  /\ run = [s \in Sections |-> Pending]
  /\ producerTimes = [k \in CacheKeys |-> <<>>]

Init ==
  /\ AppInit
  /\ probe = [mode |-> "app"]
  /\ probeOut = [mode |-> "app"]

(***************************************************************************)
(* The sidebar and the page header, lines 96-119                           *)
(***************************************************************************)
\* mutant: the sidebar without the switch to mock data
SidebarUseDemoNoOverride(checkbox, key) == checkbox

\* lines 108-110: without a key the run is switched to mock data
SidebarUseDemo(checkbox, key) == checkbox \/ ~Truthy(key)

SidebarNotices(checkbox, key) ==
  {Notice("info", IF checkbox THEN "Status: Demo Mode" ELSE "Status: Live API Mode", "")}
  \cup (IF ~checkbox /\ ~Truthy(key)
        THEN {Notice("error", "No API Key found in secrets. Switched to Mock Data.", "")}
        ELSE {})
  \cup (IF SidebarUseDemo(checkbox, key)
        THEN {Notice("warning", "Viewing MOCK DATA. Real API quota is being preserved.", "")}
        ELSE {})

\* a user interaction starts a script run
Rerun(checkbox, date, pressed) ==
  /\ pc = "idle"
  /\ runs < MaxRuns
  /\ SidebarUseDemo(checkbox, API_KEY) => ~pressed   \* no button in demo mode
  /\ runs' = runs + 1
  /\ demo_checkbox' = checkbox
  /\ use_demo' = SidebarUseDemo(checkbox, API_KEY)
  /\ selected_date' = date
  /\ button' = pressed
  /\ banner' = SidebarNotices(checkbox, API_KEY)
  /\ run' = [s \in Sections |-> Pending]
  /\ pc' = "ult"
  /\ UNCHANGED <<API_KEY, now, cache, producerTimes, probe, probeOut>>

(***************************************************************************)
(* The three sections                                                      *)
(***************************************************************************)
\* mutant: section 1 fetching whatever the demo switch says
LoadBranchLiveCalendar(sec, demo, pressed) ==
  IF sec = "ult" THEN "fetch"
  ELSE IF demo THEN "demo"
  ELSE IF sec = "news" /\ ~pressed THEN "skip"
  ELSE "fetch"

\* which way a section gets its data: lines 124-130, 165-169, 201-209
LoadBranch(sec, demo, pressed) ==
  IF demo THEN "demo"
  ELSE IF sec = "news" /\ ~pressed THEN "skip"
  ELSE "fetch"

\* the cache key of a section's fetcher call
KeyOf(sec, date) == IF sec = "news" THEN <<"news", NewsArg>> ELSE <<sec, date>>

Fetch(sec, c, t, key, date, resp) ==
  CASE sec = "ult" -> fetch_ultimate_calendar_live(c, t, key, date, resp)
    [] sec = "ff" -> fetch_forex_factory_live(c, t, key, date, resp)
    [] sec = "news" -> fetch_news_live(c, t, key, resp)

\* one section of the run: load, then process and show
Section(sec, next) ==
  /\ pc = sec
  /\ pc' = next
  /\ LET branch == LoadBranch(sec, use_demo, button)
     IN \E resp \in Responses(sec) :
          LET call == Fetch(sec, cache, now, API_KEY, selected_date, resp)
              k == KeyOf(sec, selected_date)
              data == CASE branch = "demo" -> PyList(MockData(sec))
                        [] branch = "skip" -> EmptyList
                        [] branch = "fetch" -> call.value
          IN /\ cache' = IF branch = "fetch" THEN call.cache ELSE cache
             /\ producerTimes' =
                  IF branch = "fetch" /\ ~call.hit
                  THEN [producerTimes EXCEPT ![k] = Append(@, now)]
                  ELSE producerTimes
             /\ run' = [run EXCEPT ![sec] =
                  [branch |-> branch,
                   fetcherCalls |-> IF branch = "fetch" THEN 1 ELSE 0,
                   netCalls |-> IF branch = "fetch" THEN call.requests ELSE 0,
                   hit |-> branch = "fetch" /\ call.hit,
                   ret |-> IF branch = "fetch" THEN call.value ELSE PyNull,
                   shown |-> Process(sec, data)]]
  /\ UNCHANGED <<API_KEY, now, runs, demo_checkbox, use_demo, selected_date,
                 button, banner, probe, probeOut>>

Section1 == Section("ult", "ff")
Section2 == Section("ff", "news")
Section3 == Section("news", "idle")

\* time passes between script runs (a run is short against the TTLs)
Tick ==
  /\ pc = "idle"
  /\ now < MaxTicks * ClockStep
  /\ now' = now + ClockStep
  /\ UNCHANGED <<API_KEY, cache, runs, pc, demo_checkbox, use_demo, selected_date,
                 button, banner, run, producerTimes, probe, probeOut>>

Next ==
  \/ \E checkbox \in BOOLEAN, date \in Dates, pressed \in BOOLEAN :
       Rerun(checkbox, date, pressed)
  \/ Section1
  \/ Section2
  \/ Section3
  \/ Tick

Spec == Init /\ [][Next]_vars

(***************************************************************************)
(* Direct calls of the filters: every list of raw records up to MaxLen     *)
(***************************************************************************)
ImpactTexts == {S_High, S_high, S_HIGH_IMPACT, S_Hig, S_Medium}
CurrencyTexts == {"USD", "EUR", "usd"}

\* raw records of a schema; the impact and currency fields may be missing
RawRecords(schema) ==
  IF schema = "ult"
  THEN {[title |-> "event"]} \cup {[title |-> "event", impact |-> v] : v \in ImpactTexts}
  ELSE {[Event |-> "event"]}
       \cup {[Event |-> "event", Impact |-> v] : v \in ImpactTexts}
       \cup {[Event |-> "event", Currency |-> c] : c \in CurrencyTexts}
       \cup {[Event |-> "event", Currency |-> c, Impact |-> v] :
               c \in CurrencyTexts, v \in ImpactTexts}

RawLists(schema) == UNION {[1..n -> RawRecords(schema)] : n \in 0..MaxLen}

FilterOf(schema, rows) == IF schema = "ult" THEN FilterUlt(rows) ELSE FilterFF(rows)

FilterInit ==
  /\ AppInit
  /\ \E schema \in {"ult", "ff"} :
       \E rows \in RawLists(schema) :
         probe = [mode |-> "filter", schema |-> schema, rows |-> rows, stage |-> "raw"]
  /\ probeOut = [kept |-> <<>>, shown |-> Pending.shown]

\* the section's frame, filter and display applied to a live list
ApplyFilter ==
  /\ probe.stage = "raw"
  /\ probe' = [probe EXCEPT !.stage = "filtered"]
  /\ probeOut' = [kept |-> FilterOf(probe.schema, probe.rows),
                  shown |-> Process(probe.schema, PyList(probe.rows))]
  /\ UNCHANGED appVars

FilterNext == ApplyFilter

SpecFilter == FilterInit /\ [][FilterNext]_vars

(***************************************************************************)
(* Direct calls of a fetcher's body followed by its section's processing:  *)
(* every credential state against every answer of the upstream             *)
(***************************************************************************)
AllResponses(sec) ==
  Responses(sec) \cup
  { Http(200, EmptyList),
    Http(200, PyDict(EmptyFn)),
    Http(200, PyDict([message |-> "no events"])),
    Http(200, ErrorDict("maintenance")),
    Http(200, PyNull),
    Http(200, NotJson),
    Http(401, PyNull) }

PipelineInit ==
  /\ AppInit
  /\ \E sec \in Sections :
       \E resp \in AllResponses(sec) :
         probe = [mode |-> "pipeline", sec |-> sec, resp |-> resp, stage |-> "call"]
  /\ probeOut = [value |-> PyNull, requests |-> 0, shown |-> Pending.shown]

\* the fetcher's body: lines 68-74, 77-84, 87-91
DirectFetch ==
  /\ probe.stage = "call"
  /\ probe' = [probe EXCEPT !.stage = "process"]
  /\ LET r == make_api_request(API_KEY, probe.resp)
     IN probeOut' = [probeOut EXCEPT !.value = r.value, !.requests = r.requests]
  /\ UNCHANGED appVars

\* the section's processing of what the fetcher returned
DirectProcess ==
  /\ probe.stage = "process"
  /\ probe' = [probe EXCEPT !.stage = "shown"]
  /\ probeOut' = [probeOut EXCEPT !.shown = Process(probe.sec, probeOut.value)]
  /\ UNCHANGED appVars

PipelineNext == DirectFetch \/ DirectProcess

SpecPipeline == PipelineInit /\ [][PipelineNext]_vars

(***************************************************************************)
(* Claims                                                                  *)
(***************************************************************************)
NoDataNotice == Notice("info", "No data available.", "")
NoKeySidebarNotice ==
  Notice("error", "No API Key found in secrets. Switched to Mock Data.", "")
QuotaNotices ==
  { Notice("error", "API Quota Exceeded (429). Switching to Mock Data for display.", ""),
    Notice("error", "API Quota Exceeded (429). Switching to Mock Data.", ""),
    Notice("error", "API Quota Exceeded. Showing Mock News.", "") }
HasErrorNotice(notices) == \E n \in notices : n.level = "error"
HasDetailNotice(notices) == \E n \in notices : n.level = "error" /\ n.detail # ""
Rendered(sec) == run[sec].branch # "pending"

\* the impact texts of the model that hold "High" when case is ignored
HighTexts == {S_High, S_high, S_HIGH_IMPACT}
ImpactField(schema) == IF schema = "ult" THEN "impact" ELSE "Impact"
HighImpact(schema, r) ==
  ImpactField(schema) \in DOMAIN r /\ r[ImpactField(schema)] \in HighTexts
UsdCurrency(r) == "Currency" \in DOMAIN r /\ r["Currency"] = "USD"

\* the predicate of the specification's filter
KeptByClaim(schema, r) ==
  HighImpact(schema, r) /\ (schema = "ff" => UsdCurrency(r))

\* the same predicate, each condition applying only where some record of the
\* list carries its column
KeptWhereColumns(schema, rows, r) ==
  /\ ImpactField(schema) \in Columns(rows) => HighImpact(schema, r)
  /\ (schema = "ff" /\ "Currency" \in Columns(rows)) => UsdCurrency(r)

Filtered == probe.mode = "filter" /\ probe.stage = "filtered"

\* C8 as stated: for every list of raw records the filter keeps a record iff
\* its impact holds "High" ignoring case and, for the secondary schema, its
\* currency is exactly "USD".
C8_KeepsIffHighUsd ==
  Filtered =>
    probeOut.kept = SelectSeq(probe.rows, LAMBDA r : KeptByClaim(probe.schema, r))

\* C8 amended: the filter keeps a record iff it passes the impact condition
\* and, for the secondary schema, the currency condition, where a condition
\* is applied only if at least one record of the list carries that column;
\* what is kept is what the section draws, and a list filtered down to
\* nothing gives an info notice, never an error notice.
C8_KeepsIffHighUsdWhereColumns ==
  Filtered =>
    LET expected == SelectSeq(probe.rows,
                      LAMBDA r : KeptWhereColumns(probe.schema, probe.rows, r))
    IN /\ probeOut.kept = expected
       /\ Len(probeOut.shown.table) = Len(expected)
       /\ ~HasErrorNotice(probeOut.shown.notices)
       /\ (expected = <<>>) = (probeOut.shown.notices # {})

\* C8 witness: a secondary list whose EUR/High record is dropped and whose
\* USD/HIGH-IMPACT record is kept.
C8_Witness ==
  /\ Filtered
  /\ probe.rows = << [Event |-> "event", Currency |-> "EUR", Impact |-> S_High],
                     [Event |-> "event", Currency |-> "USD", Impact |-> S_HIGH_IMPACT] >>
  /\ probeOut.kept = << [Event |-> "event", Currency |-> "USD", Impact |-> S_HIGH_IMPACT] >>

DemoRowOk(sec, r) ==
  /\ r[ImpactField(sec)] = S_High
  /\ sec = "ff" => r["Currency"] = "USD"

\* C9 as stated: the demo calendar datasets pass the filter whole (filtering
\* a demo dataset removes no record).
C9_DemoSelfConsistent ==
  \A sec \in {"ult", "ff"} :
    run[sec].branch = "demo" =>
      Len(run[sec].shown.table) = Len(MockData(sec))

\* C9 amended: filtering a demo calendar dataset yields only High records
\* (and only USD ones for the secondary schema); as delivered each dataset
\* holds three records of which the third is Medium, and the filter removes
\* it, leaving the first two.
C9_DemoFilteredToHigh ==
  \A sec \in {"ult", "ff"} :
    run[sec].branch = "demo" =>
      LET table == run[sec].shown.table
      IN /\ \A i \in 1..Len(table) : DemoRowOk(sec, table[i])
         /\ Len(MockData(sec)) = 3
         /\ Len(table) = 2
         /\ \A i \in 1..2 : \A c \in DOMAIN table[i] : table[i][c] = MockData(sec)[i][c]
         /\ MockData(sec)[3][ImpactField(sec)] = S_Medium

\* C9 witness: both calendar sections have drawn their demo dataset.
C9_Witness == run["ult"].branch = "demo" /\ run["ff"].branch = "demo"

(***************************************************************************)
(* Claims about a fetcher's body followed by its section (SpecPipeline)    *)
(***************************************************************************)
AtShown == probe.mode = "pipeline" /\ probe.stage = "shown"

\* the error kind of a call, read off the credential and the upstream's answer
ErrKind ==
  IF ~Truthy(API_KEY) THEN "NoCredential"
  ELSE IF probe.resp.kind = "transport" THEN "TransportError"
  ELSE IF probe.resp.status = 429 THEN "RateLimited"
  ELSE IF probe.resp.status >= 400 THEN "HttpError"
  ELSE "none"

\* a 2xx answer whose parsed body is an empty list or no list at all
OkNoRecords ==
  /\ Truthy(API_KEY)
  /\ probe.resp.kind = "http" /\ probe.resp.status = 200
  /\ probe.resp.body # NotJson
  /\ ~IsNonEmptyList(probe.resp.body)

C1_AbsentKeyFallsBackToDemo ==
  (~Truthy(API_KEY) /\ ~demo_checkbox) =>
    /\ NoKeySidebarNotice \in banner
    /\ \A sec \in Sections :
         Rendered(sec) =>
           /\ run[sec].branch = "demo"
           /\ run[sec].shown.data = PyList(MockData(sec))
           /\ Len(run[sec].shown.table) > 0
           /\ ~HasErrorNotice(run[sec].shown.notices)
           /\ run[sec].netCalls = 0
           /\ run[sec].fetcherCalls = 0
    /\ \A k \in CacheKeys : ~cache[k].present /\ producerTimes[k] = <<>>

\* C1 witness: a finished run without a key and with the checkbox off.
C1_Witness ==
  /\ ~Truthy(API_KEY) /\ ~demo_checkbox /\ pc = "idle"
  /\ \A sec \in Sections : run[sec].branch = "demo"

\* C2: with the demo checkbox on, whatever the credential and the cache,
\* each section takes its data from the mock generators, no fetcher is
\* called and no request is sent.
C2_DemoNeverFetches ==
  demo_checkbox =>
    \A sec \in Sections :
      Rendered(sec) =>
        /\ run[sec].branch = "demo"
        /\ run[sec].shown.data = PyList(MockData(sec))
        /\ run[sec].fetcherCalls = 0
        /\ run[sec].netCalls = 0
        /\ ~run[sec].hit

\* C2 witness: a finished demo run with a credential present and live
\* entries in the cache for the selected date.
C2_Witness ==
  /\ demo_checkbox /\ Truthy(API_KEY) /\ pc = "idle"
  /\ \A sec \in Sections : run[sec].branch = "demo"
  /\ \A sec \in Sections : cache[KeyOf(sec, selected_date)].present

\* C5: a section whose fetcher returned the rate-limit error (live mode,
\* credential present) shows its demo dataset with its quota notice, and
\* neither the empty dataset nor a generic error notice.
C5_RateLimitedShowsDemo ==
  \A sec \in Sections :
    (run[sec].branch = "fetch" /\ run[sec].ret = ErrorDict("429_LIMIT")) =>
      /\ ~demo_checkbox /\ Truthy(API_KEY)
      /\ run[sec].shown.data = PyList(MockData(sec))
      /\ Len(run[sec].shown.table) > 0
      /\ run[sec].shown.notices \subseteq QuotaNotices
      /\ Cardinality(run[sec].shown.notices) = 1

\* C5 witness: all three sections of one run were rate limited, by fresh
\* requests.
C5_Witness ==
  /\ pc = "idle"
  /\ \A sec \in Sections :
       /\ run[sec].ret = ErrorDict("429_LIMIT")
       /\ run[sec].branch = "fetch" /\ run[sec].netCalls = 1

\* C10: a fetcher call sends at most one request whatever the outcome, and a
\* run sends at most one request per section; a request is sent exactly when
\* the fetcher's body ran.
C10_SingleAttempt ==
  \A sec \in Sections :
    /\ run[sec].netCalls <= 1
    /\ run[sec].fetcherCalls <= 1
    /\ run[sec].netCalls = (IF run[sec].branch = "fetch" /\ ~run[sec].hit THEN 1 ELSE 0)

\* C10 witness: a run in which one section's request failed in transport,
\* another's was rate limited and the third's got an HTTP error, each after
\* one request.
C10_Witness ==
  /\ pc = "idle"
  /\ run["ult"].ret = ErrorDict(TransportText)
  /\ run["ff"].ret = ErrorDict("429_LIMIT")
  /\ run["news"].ret = ErrorDict(StatusText[500])
  /\ \A sec \in Sections : run[sec].netCalls = 1 /\ ~run[sec].hit

(***************************************************************************)
(* Claims about the cache (Spec)                                           *)
(***************************************************************************)
\* the TTLs as the specification gives them
ClaimTtl(f) == IF f = "news" THEN TTL_NEWS ELSE TTL_CALENDAR

\* a step in which section sec calls its fetcher
FetchStep(sec) == pc = sec /\ pc' # sec /\ run'[sec].branch = "fetch"

\* per key, two runs of the fetcher's body are at least a TTL apart, and a
\* stored entry expires a TTL after the last of them
C3_ProducerSpacing ==
  \A k \in CacheKeys :
    LET times == producerTimes[k]
    IN /\ \A i, j \in 1..Len(times) :
            i < j => times[j] - times[i] >= ClaimTtl(k[1])
       /\ cache[k].present = (Len(times) > 0)
       /\ cache[k].present => cache[k].expires_at = times[Len(times)] + ClaimTtl(k[1])

\* a call before the entry's expiry is a hit that runs nothing; a call with
\* no entry, or at or after the expiry, runs the body once and sends one
\* request
C3_CallStep ==
  \A sec \in Sections :
    FetchStep(sec) =>
      LET k == KeyOf(sec, selected_date)
          e == cache[k]
      IN IF e.present /\ now < e.expires_at
         THEN /\ run'[sec].hit
              /\ run'[sec].ret = e.value
              /\ run'[sec].netCalls = 0
              /\ producerTimes' = producerTimes
         ELSE /\ ~run'[sec].hit
              /\ run'[sec].netCalls = 1
              /\ producerTimes' = [producerTimes EXCEPT ![k] = Append(@, now)]
              /\ cache'[k].expires_at = now + ClaimTtl(sec)

\* C3: for each cached fetcher, calls with the same key within the TTL
\* (3600 s for the calendars, 1800 s for the news) run the upstream request
\* once, a call after the expiry runs it again, and a hit never returns an
\* entry whose expiry has passed.
C3_CachedFetchers == []C3_ProducerSpacing /\ [][C3_CallStep]_vars

\* C3 witness: at 1800 s a run hit the primary calendar's entry of time 0
\* (TTL 3600) and fetched the news again (TTL 1800, expired).
C3_Witness ==
  /\ pc = "idle" /\ now = TTL_NEWS
  /\ run["ult"].hit /\ run["ult"].netCalls = 0
  /\ producerTimes[KeyOf("ult", selected_date)] = <<0>>
  /\ ~run["news"].hit /\ run["news"].netCalls = 1
  /\ producerTimes[KeyOf("news", selected_date)] = <<0, TTL_NEWS>>

\* an error returned by the fetcher's body is stored like any value, and a
\* stored error is served, unchanged and without a request, until it expires
C4_ErrorStep ==
  \A sec \in Sections :
    FetchStep(sec) =>
      LET k == KeyOf(sec, selected_date)
          e == cache[k]
      IN /\ (e.present /\ IsErrorDict(e.value) /\ now < e.expires_at) =>
              /\ run'[sec].ret = e.value
              /\ run'[sec].netCalls = 0
              /\ cache'[k] = e
         /\ (~run'[sec].hit /\ IsErrorDict(run'[sec].ret)) =>
              cache'[k] = [present |-> TRUE, value |-> run'[sec].ret,
                           expires_at |-> now + ClaimTtl(sec)]

\* an entry changes only once it has expired, and is never dropped
C4_OnlyExpiry ==
  \A k \in CacheKeys :
    (cache[k].present /\ cache'[k] # cache[k]) =>
      now >= cache[k].expires_at /\ cache'[k].present

\* C4: error results are cached like successes: after a fetch for a key
\* returned an error, every later call with that key before the TTL elapses
\* returns the same error without a request, whatever the upstream would
\* answer now; only expiry replaces the entry.
C4_ErrorsCached == [][C4_ErrorStep /\ C4_OnlyExpiry]_vars

\* C4 witness: a section served a stored rate-limit error without a request
\* and showed its demo dataset.
C4_Witness ==
  /\ pc = "idle"
  /\ run["ff"].hit /\ run["ff"].netCalls = 0
  /\ run["ff"].ret = ErrorDict("429_LIMIT")
  /\ cache[KeyOf("ff", selected_date)].value = ErrorDict("429_LIMIT")
  /\ now < cache[KeyOf("ff", selected_date)].expires_at

====
